---- MODULE Spec2Model ----
(***************************************************************************)
(* Captain.menu, the ComfyUI extension of extensions/menu.js (and its      *)
(* documented duplicate).  setup(app) swaps the two save buttons of the    *)
(* host menu for buttons whose click handlers read the clock, await        *)
(* app.graphToPrompt() and hand the result to downloadFile.                *)
(*                                                                         *)
(* The DOM is modelled as far as the code touches it: the menu container   *)
(* is a sequence of children, a child is an element with an id and a       *)
(* sequence of nested elements, document.body holds the temporary anchors. *)
(***************************************************************************)
EXTENDS Integers, Sequences, FiniteSets, TLC

\* ---------------------------------------------------------------- bounds
MaxMenu    == 3    \* children of the menu container in the initial DOM
MaxClicks  == 2    \* click handler invocations in one behaviour
MaxTicks   == 1    \* clock ticks in one behaviour
ClockBase  == 9    \* Date.now() when the page is loaded

\* ------------------------------------------------------------- constants
SaveId    == "comfy-save-button"
DevSaveId == "comfy-dev-save-api-button"
OtherId   == "comfy-load-button"             \* any element setup never asks for
Ids       == {SaveId, DevSaveId, OtherId}

\* One DOM element.  nid is the identity of the node, origin tells the
\* host's elements from those this extension creates with $el.
Leaf(nid, tag, id, origin, text, width, onclick) ==
    [nid |-> nid, tag |-> tag, id |-> id, origin |-> origin, text |-> text,
     width |-> width, onclick |-> onclick, kids |-> <<>>]

\* null / undefined, where the code expects an element.
Null == Leaf(<<"null", 0, 0>>, "null", "", "", "", "", "none")

HostOnclick(id) ==
    IF id = SaveId THEN "host-save"
    ELSE IF id = DevSaveId THEN "host-api" ELSE "none"

HostButton(nid, id) == Leaf(nid, "button", id, "host", "host", "", HostOnclick(id))

HostDiv(nid, kid) ==
    [nid |-> nid, tag |-> "div", id |-> "", origin |-> "host", text |-> "",
     width |-> "", onclick |-> "none", kids |-> <<kid>>]

\* The children the host may have put at position i of its menu: a button
\* with one of the ids, or a div that wraps such a button.
HostChildren(i) ==
    {HostButton(<<"host", i, 0>>, id) : id \in Ids}
    \cup {HostDiv(<<"host", i, 0>>, HostButton(<<"host", i, 1>>, id)) : id \in Ids}

\* The menu container, a div, with the given children.
MenuDiv(kids) ==
    [nid |-> <<"host", 0, 0>>, tag |-> "div", id |-> "", origin |-> "host",
     text |-> "", width |-> "", onclick |-> "none", kids |-> kids]

\* The menus of up to n children the host may have built.
HostMenus(n) ==
    UNION {{MenuDiv(m) : m \in {k \in [1..j -> UNION {HostChildren(i) : i \in 1..j}] :
                                  \A i \in 1..j : k[i] \in HostChildren(i)}}
           : j \in 0..n}

\* ------------------------------------------------------------ DOM helpers
RECURSIVE Flatten(_)
\* The descendants of a container in document order.
Flatten(m) ==
    IF m = <<>> THEN <<>>
    ELSE <<Head(m)>> \o Head(m).kids \o Flatten(Tail(m))

\* menu.querySelector("#id"): the first descendant in document order that
\* carries the id, or null.
QuerySelector(m, id) ==
    LET f == Flatten(m)
        hits == {k \in 1..Len(f) : f[k].id = id}
    IN  IF hits = {} THEN Null
        ELSE f[CHOOSE k \in hits : \A j \in hits : k <= j]

\* The index of node n among the children of m, 0 when n is not a child.
ChildIndex(m, n) ==
    IF \E i \in 1..Len(m) : m[i].nid = n.nid
    THEN CHOOSE i \in 1..Len(m) : m[i].nid = n.nid
    ELSE 0

\* The DOM's insertBefore with the reference node misplaced: the new node is
\* appended after the last child.
InsertBeforeAppends(m, new, ref) == Append(m, new)

\* menu.insertBefore(new, ref) for a ref that is a child of menu.
InsertBefore(m, new, ref) ==
    LET i == ChildIndex(m, ref)
    IN  SubSeq(m, 1, i - 1) \o <<new>> \o SubSeq(m, i, Len(m))

RECURSIVE RemoveNode(_, _)
\* node.remove(): the node leaves its parent, wherever in the tree that is.
RemoveNode(m, n) ==
    IF m = <<>> THEN <<>>
    ELSE IF Head(m).nid = n.nid THEN Tail(m)
    ELSE <<[Head(m) EXCEPT !.kids = RemoveNode(Head(m).kids, n)]>>
         \o RemoveNode(Tail(m), n)

\* ---------------------------------------------------------------- state
VARIABLES
    menu,           \* app.ui.menuContainer: Null, or the menu's div element
    menu0,          \* the menu as the host built it (history, never read by the code)
    setupPc,        \* "pending", "returned" or "threw": where setup(app) stands
    consoleErrors,  \* number of console.error calls
    created,        \* the elements setup created with $el, in order
    removed,        \* the nodes setup removed, in order
    nextNid,        \* number of elements this extension created so far
    clock,          \* Date.now()
    promises,       \* the promises app.graphToPrompt() returned, by call
    handlers,       \* the invocations of the replacement click handlers, by click
    body,           \* the temporary anchors in document.body
    urls,           \* the object URLs created so far: their blob, and whether live
    downloads,      \* the downloads the browser started
    dialog          \* the window.prompt dialog that is open: "none", or whose
                    \* button ("host", "captain") opened it

vars == <<menu, menu0, setupPc, consoleErrors, created, removed, nextNid, clock,
          promises, handlers, body, urls, downloads, dialog>>

domVars   == <<menu, setupPc, consoleErrors, created, removed>>
clickVars == <<promises, handlers, body, urls, downloads>>

\* ---------------------------------------------------------------- setup
\* A replacement that carries the handler of the button it replaces.
NewButtonKeepsHostHandler(k, id) ==
    Leaf(<<"captain", k, 0>>, "button", id, "captain",
         IF id = SaveId THEN "Save" ELSE "Save (API Format)",
         IF id = SaveId THEN "" ELSE "100%", HostOnclick(id))

\* $el("button", {id, textContent, style, onclick}) of setup.
NewButton(k, id) ==
    IF id = SaveId
    THEN Leaf(<<"captain", k, 0>>, "button", SaveId, "captain", "Save", "", "save")
    ELSE Leaf(<<"captain", k, 0>>, "button", DevSaveId, "captain",
              "Save (API Format)", "100%", "api")

\* One of the two blocks of setup: look the button up; when it is there,
\* create the replacement, insert it before the original and remove the
\* original.  insertBefore throws NotFoundError when the node found is not a
\* child of the menu itself; the replacement is created by then (the
\* arguments are evaluated first) and nothing else has happened.
ReplaceButton(st, id) ==
    LET old == QuerySelector(st.kids, id)
        new == NewButton(st.n, id)
    IN  IF st.threw \/ old = Null THEN st
        ELSE IF ChildIndex(st.kids, old) = 0
        THEN [st EXCEPT !.created = Append(@, new), !.n = @ + 1, !.threw = TRUE]
        ELSE [st EXCEPT !.kids = RemoveNode(InsertBefore(st.kids, new, old), old),
                        !.created = Append(@, new),
                        !.removed = Append(@, old),
                        !.n = @ + 1]

\* A setup without the check of the menu container.
MenuMissingUnchecked(m) == FALSE

\* if (!menu)
MenuMissing(m) == m = Null

\* setup(app): it has no await, so it runs to its end in one step.  (Past
\* the check the menu is an element; querySelector of null would throw.)
Setup ==
    /\ dialog = "none"
    /\ setupPc = "pending"
    /\ IF MenuMissing(menu)
       THEN /\ consoleErrors' = consoleErrors + 1
            /\ setupPc' = "returned"
            /\ UNCHANGED <<menu, created, removed, nextNid>>
       ELSE LET st0 == [kids |-> menu.kids, created |-> created, removed |-> removed,
                        n |-> nextNid, threw |-> menu = Null]
                st  == ReplaceButton(ReplaceButton(st0, SaveId), DevSaveId)
            IN  /\ menu' = [menu EXCEPT !.kids = st.kids]
                /\ created' = st.created
                /\ removed' = st.removed
                /\ nextNid' = st.n
                /\ setupPc' = IF st.threw THEN "threw" ELSE "returned"
                /\ UNCHANGED consoleErrors
    /\ UNCHANGED <<menu0, clock, dialog>>
    /\ UNCHANGED clickVars

\* The host's own save handlers ask for the file name with window.prompt,
\* which blocks the page until the user answers; they run when a button that
\* carries them is clicked.
HostClick ==
    /\ dialog = "none"
    /\ menu # Null
    /\ \E k \in 1..Len(Flatten(menu.kids)) :
           /\ Flatten(menu.kids)[k].onclick \in {"host-save", "host-api"}
           /\ dialog' = Flatten(menu.kids)[k].origin
    /\ UNCHANGED <<menu0, nextNid, clock>>
    /\ UNCHANGED domVars
    /\ UNCHANGED clickVars

\* The user answers the dialog.
DismissPrompt ==
    /\ dialog # "none"
    /\ dialog' = "none"
    /\ UNCHANGED <<menu0, nextNid, clock>>
    /\ UNCHANGED domVars
    /\ UNCHANGED clickVars

\* Time passes.
Tick ==
    /\ dialog = "none"
    /\ clock < ClockBase + MaxTicks
    /\ clock' = clock + 1
    /\ UNCHANGED <<menu0, nextNid, dialog>>
    /\ UNCHANGED domVars
    /\ UNCHANGED clickVars

\* ------------------------------------------------------- file names, JSON
Digit(d) == <<"0", "1", "2", "3", "4", "5", "6", "7", "8", "9">>[d + 1]

RECURSIVE DecStr(_)
\* Number.prototype.toString(): the decimal digits of a natural number.
DecStr(n) ==
    IF n < 10 THEN <<Digit(n)>>
    ELSE DecStr(n \div 10) \o <<Digit(n % 10)>>

\* `${prefix}${t.toString()}.json`, as the sequence of its parts.
FileName(prefix, t) == <<prefix>> \o DecStr(t) \o <<".json">>

\* The template literals of the two handlers.
SaveFileName(now) == FileName("workflow_", now)
ApiFileName(now)  == FileName("workflow_api_", now)

\* What app.graphToPrompt() may resolve to: the two representations of
\* the graph, for two different graphs.
Prompts ==
    {[workflow |-> "workflow-1", output |-> "output-1"],
     [workflow |-> "workflow-2", output |-> "output-2"]}

NoPrompt == [workflow |-> "", output |-> ""]

\* JSON.stringify(data, null, 2): the text that denotes data.
Stringify(data) == <<"json", data>>

\* ---------------------------------------------------------- downloadFile
\* URL.createObjectURL(blob): a new live URL, numbered by creation.
CreateObjectURL(d, blob) ==
    [d EXCEPT !.urls = Append(@, [blob |-> blob, live |-> TRUE]),
              !.log = Append(@, "createObjectURL")]

\* $el("a", {href, download, style, parent: document.body}).
AppendAnchor(d, a) ==
    [d EXCEPT !.body = Append(@, a), !.n = @ + 1, !.log = Append(@, "append")]

\* a.click(): the browser starts a download of what the href denotes, under
\* the name of the download attribute.
ClickAnchor(d, a, h, now) ==
    [d EXCEPT !.downloads =
                  Append(@, [filename |-> a.download,
                             content |-> IF d.urls[a.href].live
                                         THEN d.urls[a.href].blob.text
                                         ELSE <<"error", "revoked">>,
                             attached |-> \E k \in 1..Len(d.body) : d.body[k].nid = a.nid,
                             handler |-> h, at |-> now]),
              !.log = Append(@, "click")]

\* a.remove().
RemoveAnchor(d, nid) ==
    [d EXCEPT !.body = SelectSeq(@, LAMBDA x : x.nid # nid),
              !.log = Append(@, "remove")]

\* window.URL.revokeObjectURL(url).
RevokeObjectURL(d, url) ==
    [d EXCEPT !.urls = [@ EXCEPT ![url].live = FALSE],
              !.log = Append(@, "revoke")]

\* downloadFile up to its await: the JSON blob, its URL, the hidden anchor in
\* document.body, the click.
DownloadFileBegin(d, filename, data, h, now) ==
    LET blob == [type |-> "application/json", text |-> Stringify(data)]
        d1   == CreateObjectURL(d, blob)
        url  == Len(d1.urls)
        a    == [nid |-> <<"captain", d.n, 0>>, tag |-> "a", href |-> url,
                 download |-> filename, display |-> "none"]
    IN  [ClickAnchor(AppendAnchor(d1, a), a, h, now) EXCEPT !.url = url, !.a = a.nid]

\* downloadFile that forgets to revoke the URL.
DownloadFileEndLeaksURL(d, nid, url) == RemoveAnchor(d, nid)

\* downloadFile after its await: the anchor is removed, the URL revoked.
DownloadFileEnd(d, nid, url) == RevokeObjectURL(RemoveAnchor(d, nid), url)

\* ------------------------------------------------------- click handlers
\* The Save handler passing the other representation.
SaveDataIsOutput(prompt) == prompt.output

\* What each handler passes to downloadFile.
SaveData(prompt) == prompt.workflow
ApiData(prompt)  == prompt.output

\* A handler that reads the clock after its await instead of before.
OnclickFileNameReadLate(h, now) ==
    IF h.button = "save" THEN SaveFileName(now) ELSE ApiFileName(now)

\* The name a handler passes to downloadFile at time now: the constant it
\* bound before its await.
OnclickFileName(h, now) == h.filename

\* A replacement button with the given handler is in the menu.
HasButton(onclick) ==
    /\ menu # Null
    /\ \E k \in 1..Len(Flatten(menu.kids)) :
           /\ Flatten(menu.kids)[k].origin = "captain"
           /\ Flatten(menu.kids)[k].onclick = onclick

\* A click handler up to its await: the file name from the clock, then the
\* call of app.graphToPrompt().
OnclickBegin(button, filename) ==
    /\ dialog = "none"
    /\ Len(handlers) < MaxClicks
    /\ HasButton(button)
    /\ promises' = Append(promises, [state |-> "pending", value |-> NoPrompt])
    /\ handlers' = Append(handlers,
           [button |-> button, filename |-> filename, clickTime |-> clock,
            promise |-> Len(promises) + 1, pc |-> "awaitGraph",
            url |-> 0, a |-> <<"none", 0, 0>>, log |-> <<>>])
    /\ UNCHANGED <<menu0, nextNid, clock, dialog, body, urls, downloads>>
    /\ UNCHANGED domVars

SaveOnclick == OnclickBegin("save", SaveFileName(clock))
ApiOnclick  == OnclickBegin("api", ApiFileName(clock))

\* The promise a handler awaits is fulfilled with prompt p and the handler
\* goes on: it calls downloadFile, which runs up to its own await.
OnclickResume(i, button, p, data) ==
    /\ dialog = "none"
    /\ handlers[i].button = button
    /\ handlers[i].pc = "awaitGraph"
    /\ promises[handlers[i].promise].state = "pending"
    /\ LET d0 == [body |-> body, urls |-> urls, downloads |-> downloads,
                  n |-> nextNid, log |-> handlers[i].log, url |-> 0,
                  a |-> <<"none", 0, 0>>]
           d  == DownloadFileBegin(d0, OnclickFileName(handlers[i], clock), data,
                                     i, clock)
       IN  /\ body' = d.body
           /\ urls' = d.urls
           /\ downloads' = d.downloads
           /\ nextNid' = d.n
           /\ handlers' = [handlers EXCEPT ![i].pc = "awaitClick",
                                           ![i].url = d.url,
                                           ![i].a = d.a,
                                           ![i].log = d.log]
    /\ promises' = [promises EXCEPT ![handlers[i].promise] =
                                        [state |-> "fulfilled", value |-> p]]
    /\ UNCHANGED <<menu0, clock, dialog>>
    /\ UNCHANGED domVars

SaveOnclickResume ==
    \E i \in 1..Len(handlers), p \in Prompts : OnclickResume(i, "save", p, SaveData(p))

ApiOnclickResume ==
    \E i \in 1..Len(handlers), p \in Prompts : OnclickResume(i, "api", p, ApiData(p))

\* app.graphToPrompt() fails: the handler's await throws and the handler ends.
GraphReject ==
    \E i \in 1..Len(handlers) :
        /\ dialog = "none"
        /\ handlers[i].pc = "awaitGraph"
        /\ promises[handlers[i].promise].state = "pending"
        /\ promises' = [promises EXCEPT ![handlers[i].promise].state = "rejected"]
        /\ handlers' = [handlers EXCEPT ![i].pc = "rejected"]
        /\ UNCHANGED <<menu0, nextNid, clock, dialog, body, urls, downloads>>
        /\ UNCHANGED domVars

\* downloadFile goes on after its await.
DownloadFileResume ==
    \E i \in 1..Len(handlers) :
        /\ dialog = "none"
        /\ handlers[i].pc = "awaitClick"
        /\ LET d0 == [body |-> body, urls |-> urls, downloads |-> downloads,
                      n |-> nextNid, log |-> handlers[i].log,
                      url |-> handlers[i].url, a |-> handlers[i].a]
               d  == DownloadFileEnd(d0, handlers[i].a, handlers[i].url)
           IN  /\ body' = d.body
               /\ urls' = d.urls
               /\ handlers' = [handlers EXCEPT ![i].pc = "done", ![i].log = d.log]
        /\ UNCHANGED <<menu0, nextNid, clock, dialog, promises, downloads>>
        /\ UNCHANGED domVars

\* -------------------------------------------------------- specifications
InitRest ==
    /\ menu0 = menu
    /\ setupPc = "pending"
    /\ consoleErrors = 0
    /\ created = <<>>
    /\ removed = <<>>
    /\ nextNid = 1
    /\ clock = ClockBase
    /\ promises = <<>>
    /\ handlers = <<>>
    /\ body = <<>>
    /\ urls = <<>>
    /\ downloads = <<>>
    /\ dialog = "none"

\* The page as the host hands it to setup: any menu of up to MaxMenu
\* children, or no menu container at all.
InitSetup ==
    /\ menu \in HostMenus(MaxMenu) \cup {Null}
    /\ InitRest

NextSetup == Setup \/ HostClick \/ DismissPrompt

SpecSetup == InitSetup /\ [][NextSetup]_vars

\* The stock menu of the host: the load button, the save button and the
\* save button of the dev mode, as children of the menu; a host may lack
\* either save button.
StockMenus ==
    LET load == HostButton(<<"host", 1, 0>>, OtherId)
        save == HostButton(<<"host", 2, 0>>, SaveId)
        dev  == HostButton(<<"host", 3, 0>>, DevSaveId)
    IN  {MenuDiv(<<load, save, dev>>), MenuDiv(<<load, save>>),
         MenuDiv(<<load, dev>>), MenuDiv(<<load>>)}

Init ==
    /\ menu \in StockMenus
    /\ InitRest

Next ==
    \/ Setup
    \/ HostClick
    \/ DismissPrompt
    \/ Tick
    \/ SaveOnclick
    \/ ApiOnclick
    \/ SaveOnclickResume
    \/ ApiOnclickResume
    \/ GraphReject
    \/ DownloadFileResume

Spec == Init /\ [][Next]_vars

\* ----------------------------------------------------------------- claims
SaveIds == {SaveId, DevSaveId}

\* The positions of the descendants (in document order) that carry the id.
Carriers(kids, id) == {k \in 1..Len(Flatten(kids)) : Flatten(kids)[k].id = id}

\* The positions of the children that carry the id.
ChildCarriers(kids, id) == {i \in 1..Len(kids) : kids[i].id = id}

SetupDone == setupPc # "pending"

\* The host built the menu with exactly one button of each of the two ids,
\* each a child of the menu container.
BothOriginalsAreChildren ==
    /\ menu0 # Null
    /\ \A id \in SaveIds :
           /\ Cardinality(Carriers(menu0.kids, id)) = 1
           /\ Cardinality(ChildCarriers(menu0.kids, id)) = 1

\* C1: setup on a menu whose children include the two original buttons
\* returns, and afterwards no original is a child of the menu, and for each
\* of the two ids the menu holds exactly one button with that id: the
\* replacement setup created, at the index the original had.
C1_Replaced ==
    (SetupDone /\ BothOriginalsAreChildren) =>
        /\ setupPc = "returned"
        /\ Len(menu.kids) = Len(menu0.kids)
        /\ \A id \in SaveIds :
               /\ Cardinality(Carriers(menu.kids, id)) = 1
               /\ ChildCarriers(menu.kids, id) = ChildCarriers(menu0.kids, id)
               /\ \A i \in ChildCarriers(menu.kids, id) :
                      /\ menu.kids[i].origin = "captain"
                      /\ menu.kids[i].tag = "button"
                      /\ \E c \in 1..Len(created) : created[c] = menu.kids[i]
                      /\ \E r \in 1..Len(removed) : removed[r] = menu0.kids[i]
        /\ \A i \in 1..Len(menu.kids) :
               menu.kids[i].origin = "host" => menu.kids[i].id \notin SaveIds

\* C1's case: setup has replaced both buttons of a menu that also holds a
\* third child, and the save button was not the first child.
C1_Witness ==
    /\ SetupDone
    /\ BothOriginalsAreChildren
    /\ Len(menu0.kids) = 3
    /\ menu0.kids[1].id \notin SaveIds
    /\ Len(created) = 2

\* C6: setup without a menu container logs one console error and returns;
\* it creates and removes nothing, leaves no replacement button (hence no
\* click handler) behind and the DOM is as it was.
C6_MissingMenu ==
    (SetupDone /\ menu0 = Null) =>
        /\ setupPc = "returned"
        /\ consoleErrors = 1
        /\ created = <<>>
        /\ removed = <<>>
        /\ nextNid = 1
        /\ menu = menu0
        /\ body = <<>>
        /\ ~HasButton("save") /\ ~HasButton("api")

C6_Witness == SetupDone /\ menu0 = Null /\ consoleErrors = 1

\* A console error is logged in no other case.
C6_OnlyThen == consoleErrors > 0 => menu0 = Null

\* setup found an element with the id in the menu the host built.
Found(id) == Carriers(menu0.kids, id) # {}

\* setup created a replacement with the id.
Created(id) == \E c \in 1..Len(created) : created[c].id = id

\* setup removed an original with the id.
Removed(id) == \E r \in 1..Len(removed) : removed[r].id = id

\* The children setup did not put there, and those it did not take away.
Kept(kids, gone) ==
    SelectSeq(kids, LAMBDA x : \A g \in 1..Len(gone) : gone[g].nid # x.nid)

\* C7: setup creates and removes at most two nodes, a pair for each original
\* found: for each of the two ids a replacement is created, and the original
\* removed, exactly when the menu holds an element with that id; when it
\* holds none, no button with that id is added; the other children stay, in
\* their order, and the menu has as many children as before.
C7_FrameOfSetup ==
    (SetupDone /\ menu0 # Null) =>
        /\ Len(created) <= 2
        /\ Len(removed) <= 2
        /\ \A id \in SaveIds :
               /\ Found(id) <=> Created(id)
               /\ Found(id) <=> Removed(id)
               /\ ~Found(id) => Carriers(menu.kids, id) = {}
        /\ Kept(menu.kids, created) = Kept(menu0.kids, removed)
        /\ Len(menu.kids) = Len(menu0.kids)

\* Every element of the menu with one of the two ids is a child of it.
SaveButtonsAreChildren ==
    /\ menu0 # Null
    /\ \A id \in SaveIds : \A k \in Carriers(menu0.kids, id) :
           ChildIndex(menu0.kids, Flatten(menu0.kids)[k]) # 0

\* C7 on the menus whose save buttons are all children of the menu.
C7_OnChildren ==
    (SetupDone /\ SaveButtonsAreChildren) =>
        /\ setupPc = "returned"
        /\ Len(created) <= 2
        /\ Len(removed) <= 2
        /\ \A id \in SaveIds :
               /\ Found(id) <=> Created(id)
               /\ Found(id) <=> Removed(id)
               /\ ~Found(id) => Carriers(menu.kids, id) = {}
        /\ Kept(menu.kids, created) = Kept(menu0.kids, removed)
        /\ Len(menu.kids) = Len(menu0.kids)

\* The downloads the browser started for click i.
DownloadsOf(i) == {k \in 1..Len(downloads) : downloads[k].handler = i}

\* Click i got past its await of app.graphToPrompt().
Resumed(i) == handlers[i].pc \in {"awaitClick", "done"}

\* C2: every click made one call of app.graphToPrompt(); a click whose call
\* was fulfilled started one download, of the workflow of that result for
\* the Save button and of its output for the Save (API Format) button; a
\* click whose call is pending or failed started none.
C2_OneCallOneDownload ==
    /\ Len(promises) = Len(handlers)
    /\ \A i \in 1..Len(handlers) :
           LET h == handlers[i]
               p == promises[h.promise]
           IN  /\ h.promise = i
               /\ Resumed(i) <=> p.state = "fulfilled"
               /\ ~Resumed(i) => DownloadsOf(i) = {}
               /\ Resumed(i) =>
                      /\ Cardinality(DownloadsOf(i)) = 1
                      /\ p.value \in Prompts
                      /\ \A k \in DownloadsOf(i) :
                             IF h.button = "save"
                             THEN /\ downloads[k].content = <<"json", p.value.workflow>>
                                  /\ downloads[k].content # <<"json", p.value.output>>
                             ELSE /\ downloads[k].content = <<"json", p.value.output>>
                                  /\ downloads[k].content # <<"json", p.value.workflow>>

\* C2's case: a click on each button has started its download, the two
\* calls having resolved to different results.
C2_Witness ==
    \E i, j \in 1..Len(handlers) :
        /\ handlers[i].button = "save" /\ Resumed(i)
        /\ handlers[j].button = "api" /\ Resumed(j)
        /\ promises[i].value # promises[j].value
        /\ Len(downloads) = 2

DigitValue(c) == CHOOSE d \in 0..9 : Digit(d) = c

RECURSIVE ParseDec(_)
\* The number a sequence of decimal digits denotes.
ParseDec(ds) ==
    IF ds = <<>> THEN 0
    ELSE 10 * ParseDec(SubSeq(ds, 1, Len(ds) - 1)) + DigitValue(ds[Len(ds)])

\* C3: the name of every download is workflow_<t>.json for the Save button
\* and workflow_api_<t>.json for the Save (API Format) button, <t> the
\* decimal clock value read when the click handler started, whatever the
\* clock shows when the download starts.
C3_NameFromClickTime ==
    \A k \in 1..Len(downloads) :
        LET f == downloads[k].filename
            h == handlers[downloads[k].handler]
        IN  /\ Len(f) >= 3
            /\ f[1] = (IF h.button = "save" THEN "workflow_" ELSE "workflow_api_")
            /\ f[Len(f)] = ".json"
            /\ \A j \in 2..(Len(f) - 1) : \E d \in 0..9 : f[j] = Digit(d)
            /\ f[2] # "0" \/ Len(f) = 3
            /\ ParseDec(SubSeq(f, 2, Len(f) - 1)) = h.clickTime
            /\ h.clickTime <= downloads[k].at

\* C3's case: a download of each button, the first started after the clock
\* had moved on from its click, the two with clock values of one and of two
\* digits.
C3_Witness ==
    \E k, l \in 1..Len(downloads) :
        /\ handlers[downloads[k].handler].button = "save"
        /\ handlers[downloads[l].handler].button = "api"
        /\ downloads[k].at > handlers[downloads[k].handler].clickTime
        /\ Len(downloads[k].filename) # Len(downloads[l].filename)

\* C4: no click on a replacement button opens a window.prompt dialog: a
\* dialog that is open was opened by one of the host's own buttons, every
\* replacement button carries one of the two handlers of this extension, and
\* a handler that has not finished waits for nothing but the pending promise
\* of its app.graphToPrompt() call (or is past it, in downloadFile).
C4_NoPrompt ==
    /\ dialog \in {"none", "host"}
    /\ menu # Null =>
           \A k \in 1..Len(Flatten(menu.kids)) :
               Flatten(menu.kids)[k].origin = "captain" =>
                   Flatten(menu.kids)[k].onclick \in {"save", "api"}
    /\ \A i \in 1..Len(handlers) :
           /\ handlers[i].pc \in {"awaitGraph", "awaitClick", "done", "rejected"}
           /\ handlers[i].pc = "awaitGraph" =>
                  promises[handlers[i].promise].state = "pending"

\* C4's case: clicks on both replacement buttons went through to their
\* downloads, one of them after its call had been pending while time passed.
C4_Witness ==
    /\ dialog = "none"
    /\ Len(downloads) = 2
    /\ \E i, j \in 1..Len(handlers) :
           /\ handlers[i].button = "save" /\ handlers[i].pc = "done"
           /\ handlers[j].button = "api" /\ handlers[j].pc = "done"
           /\ \E k \in DownloadsOf(i) : downloads[k].at > handlers[i].clickTime

DownloadSteps == <<"createObjectURL", "append", "click", "remove", "revoke">>

InBody(nid) == \E k \in 1..Len(body) : body[k].nid = nid

\* C5: downloadFile creates the URL, appends the hidden anchor with that URL
\* and the file name to document.body, clicks it, and only then removes the
\* anchor and revokes the URL; the click finds the URL live and the anchor
\* in the body.  Once the call is over its anchor is out of the body and its
\* URL revoked, so with no downloadFile call under way the body holds no
\* anchor and no URL is live.
C5_DownloadFileOrder ==
    /\ \A i \in 1..Len(handlers) :
           LET h == handlers[i]
           IN  /\ ~Resumed(i) => h.log = <<>>
               /\ h.pc = "awaitClick" =>
                      /\ h.log = SubSeq(DownloadSteps, 1, 3)
                      /\ InBody(h.a)
                      /\ urls[h.url].live
                      /\ \E k \in 1..Len(body) :
                             /\ body[k].nid = h.a
                             /\ body[k].href = h.url
                             /\ body[k].download = h.filename
                             /\ body[k].display = "none"
               /\ h.pc = "done" =>
                      /\ h.log = DownloadSteps
                      /\ ~InBody(h.a)
                      /\ ~urls[h.url].live
               /\ Resumed(i) =>
                      \A j \in 1..Len(handlers) : (Resumed(j) /\ j # i) =>
                          (handlers[j].url # h.url /\ handlers[j].a # h.a)
    /\ \A k \in 1..Len(downloads) :
           /\ downloads[k].attached
           /\ downloads[k].content[1] = "json"
    /\ Len(urls) = Cardinality({i \in 1..Len(handlers) : Resumed(i)})
    /\ (\A i \in 1..Len(handlers) : handlers[i].pc # "awaitClick") =>
           /\ body = <<>>
           /\ \A u \in 1..Len(urls) : ~urls[u].live

\* C5's case: two downloadFile calls overlapped and both are over.
C5_Witness ==
    /\ Len(handlers) = 2
    /\ \A i \in 1..Len(handlers) : handlers[i].pc = "done"
    /\ Len(urls) = 2
    /\ downloads[2].handler = 1

====
